---- MODULE Spec2Model ----
(***************************************************************************)
(* A model of the batcher built by `create` in src/src/index.ts: one       *)
(* batcher instance, the event loop's timers, the promises returned by the *)
(* fetcher and the promises handed to the callers of fetch(query).         *)
(*                                                                         *)
(* Time is counted in whole milliseconds.  A timer fires at the instant it *)
(* is due: time does not pass an armed timer that is due.  The order of    *)
(* the events of one instant is free.                                      *)
(***************************************************************************)
EXTENDS Integers, Sequences, FiniteSets, TLC

\* ------------------------------------------------------------------ bounds
MaxCalls == 3
MaxTime == 5
WindowMs == 2
BufferMs == 2

\* ------------------------------------------------------- values of the model
\* `null` of start and latest; `undefined` of the timer handle.
Null == -1
NoTimer == 0

\* A query is a primitive value (ref = 0, compared by value) or an object
\* (ref > 0, compared by identity) holding the field authorId = val.
Queries ==
    { [ref |-> 0, val |-> 1], [ref |-> 0, val |-> 2],
      [ref |-> 1, val |-> 1], [ref |-> 2, val |-> 1] }

\* The query a fetcher asks this batcher for, when it calls fetch itself.
InnerQueries == { [ref |-> 0, val |-> 2] }

\* The items a fetcher may return: two share the field id, two the field
\* authorId.
ItemA == [id |-> 1, authorId |-> 1]
ItemB == [id |-> 1, authorId |-> 2]
ItemC == [id |-> 2, authorId |-> 1]

\* The errors a fetcher may reject with.
Errors == {"boom", "bang"}

\* What a fetcher resolves with: an array of items, or a plain object that
\* maps keys to items (keys[i] is the key of items[i]).
ArrayData(items) == [kind |-> "array", keys |-> <<>>, items |-> items]
RecordData(keys) ==
    [kind |-> "record", keys |-> keys,
     items |-> [i \in 1..Len(keys) |-> [id |-> keys[i], authorId |-> keys[i]]]]
NoData == [kind |-> "none", keys |-> <<>>, items |-> <<>>]
ArrayResults == { ArrayData(<<>>), ArrayData(<<ItemA, ItemB>>), ArrayData(<<ItemC, ItemA>>) }
RecordResults == { RecordData(<<1>>), RecordData(<<1, 2>>) }

\* The value a caller's promise is fulfilled with.
Undefined == [kind |-> "undefined", items |-> <<>>]
ItemVal(item) == [kind |-> "item", items |-> <<item>>]

\* The configurations of create(config).
Schedulers == { [kind |-> "window", ms |-> WindowMs], [kind |-> "buffer", ms |-> BufferMs] }
Equalities == { "key", "function" }


VARIABLES
    config,          \* the argument of create
    now,             \* Date.now()
    seq, batch, currentRequest, timer, start, latest,   \* the closure of create
    timers,          \* the timers armed in the event loop
    deferreds,       \* every deferred() made so far, by creation order
    requests,        \* every fetcher invocation so far
    calls,           \* every fetch(query) call so far and its returned promise;
                     \* window counts the batches fired before the call, plus one
    events           \* the notifications the devtools injected for this batcher
                     \* have received; window is the batch a notification is
                     \* about, fired the number of batches fired when it was made

vars == <<config, now, seq, batch, currentRequest, timer, start, latest,
          timers, deferreds, requests, calls, events>>

\* What the fetcher given to create resolves with: arrays, as its type
\* Promise<T[]> says, or plain objects keyed by query.
Results == IF config.fetcher = "array" THEN ArrayResults ELSE RecordResults

\* ----------------------------------------------------------------- deferred
\* deferred(): a promise with its resolve and reject exposed.
deferred == [state |-> "pending", data |-> NoData, error |-> ""]

\* resolve and reject of a promise act once; later calls are ignored.
resolve(d, data) ==
    IF d.state = "pending" THEN [state |-> "fulfilled", data |-> data, error |-> ""] ELSE d

reject(d, error) ==
    IF d.state = "pending" THEN [state |-> "rejected", data |-> NoData, error |-> error] ELSE d

\* --------------------------------------------------------------- schedulers
\* Mutant: the window restarts at every call.
windowScheduler_Sliding(ms, s, l) == ms

windowScheduler(ms, s, l) ==
    LET spent == l - s
    IN  ms - spent

\* Mutant: the buffer is counted from the first call of the batch.
bufferScheduler_Fixed(ms, s, l) == ms - (l - s)

bufferScheduler(ms, s, l) == ms

scheduler(s, l) ==
    IF config.scheduler.kind = "window"
    THEN windowScheduler(config.scheduler.ms, s, l)
    ELSE bufferScheduler(config.scheduler.ms, s, l)

\* setTimeout of Node: a delay below 1 ms is 1 ms.
setTimeoutDelay(ms) == IF ms < 1 THEN 1 ELSE ms

\* ----------------------------------------------------------------- equality
\* item[key] === query, with key = "id": a number equals a primitive query of
\* the same value and never equals an object.
keyEquality(item, query) == query.ref = 0 /\ item.id = query.val

\* A function given as config.equality: (item, query) => item.authorId ===
\* query.authorId.  A primitive query has no field authorId.
functionEquality(item, query) == query.ref # 0 /\ item.authorId = query.val

equality(item, query) ==
    IF config.equality = "function"
    THEN functionEquality(item, query)
    ELSE keyEquality(item, query)

\* ------------------------------------------------------------- the batch Set
\* Mutant: an array push in place of Set.prototype.add.
SetAdd_Push(b, q) == Append(b, q)

\* Set.prototype.add: a Set keeps insertion order and holds a value once.
SetAdd(b, q) ==
    IF \E i \in 1..Len(b) : b[i] = q THEN b ELSE Append(b, q)

\* Mutant: the batch is handed over last-added first.
Spread_Reversed(b) == [i \in 1..Len(b) |-> b[Len(b) + 1 - i]]

\* [...batch]
Spread(b) == b

\* --------------------------------------------------------- result extraction
Min(S) == CHOOSE x \in S : \A y \in S : x <= y

Max(S) == CHOOSE x \in S : \A y \in S : y <= x

\* Mutant: the last matching item in place of the first.
find_Last(items, query) ==
    LET hits == { i \in 1..Len(items) : equality(items[i], query) }
    IN  IF hits = {} THEN Undefined ELSE ItemVal(items[Max(hits)])

\* Array.prototype.find
find(items, query) ==
    LET hits == { i \in 1..Len(items) : equality(items[i], query) }
    IN  IF hits = {} THEN Undefined ELSE ItemVal(items[Min(hits)])

\* Mutant: a query without a matching item rejects the caller.
then_RejectsUnmatched(d, query) ==
    CASE d.state = "pending" ->
            [state |-> "pending", value |-> Undefined, error |-> ""]
      [] d.state = "rejected" ->
            [state |-> "rejected", value |-> Undefined, error |-> d.error]
      [] d.state = "fulfilled" /\ d.data.kind = "array"
            /\ find(d.data.items, query) # Undefined ->
            [state |-> "fulfilled", value |-> find(d.data.items, query), error |-> ""]
      [] OTHER ->
            [state |-> "rejected", value |-> Undefined, error |-> "TypeError"]

\* currentRequest.value.then((data) => data.find(...)): the promise returned
\* to the caller, given the state of the deferred it is chained from.  A value
\* that is no array has no method find: the callback throws a TypeError.
then(d, query) ==
    CASE d.state = "pending" ->
            [state |-> "pending", value |-> Undefined, error |-> ""]
      [] d.state = "rejected" ->
            [state |-> "rejected", value |-> Undefined, error |-> d.error]
      [] d.state = "fulfilled" /\ d.data.kind = "array" ->
            [state |-> "fulfilled", value |-> find(d.data.items, query), error |-> ""]
      [] OTHER ->
            [state |-> "rejected", value |-> Undefined, error |-> "TypeError"]

\* The reactions of every promise chained from deferred number d run as
\* microtasks right after it settles.
Settle(cs, ds, d) ==
    [i \in 1..Len(cs) |->
        IF cs[i].deferred = d /\ cs[i].promise.state = "pending"
        THEN [cs[i] EXCEPT !.promise = then(ds[d], cs[i].query)]
        ELSE cs[i]]

\* Mutant: the fired batch's deferred is kept for the next batch.
NewRequest_Reused(ds) == ds

\* currentRequest = deferred(): the deferreds after one more is made; the new
\* one is the last.
NewRequest(ds) == Append(ds, deferred)

\* devtools?.create / queue / fetch / data / error: the notification joins
\* those the devtools have received.
Notify(type, s, w) ==
    events \cup { [type |-> type, seq |-> s, window |-> w, fired |-> Len(requests)] }

\* Mutant: the notification of a settled fetch reads the live counter.
currentSeq_Live(r) == seq

\* const currentSeq = seq, taken by the timer callback of invocation r.
currentSeq(r) == requests[r].seq

\* ---------------------------------------------------------------------- Init
Create(fetchers) ==
    /\ config \in [scheduler : Schedulers, equality : Equalities, fetcher : fetchers]
    /\ now = 1
    /\ seq = 0
    /\ batch = <<>>
    /\ deferreds = <<deferred>>
    /\ currentRequest = 1
    /\ timer = NoTimer
    /\ start = Null
    /\ latest = Null
    /\ timers = {}
    /\ requests = <<>>
    /\ calls = <<>>
    /\ events = { [type |-> "create", seq |-> 0, window |-> 1, fired |-> 0] }

\* A fetcher of the declared type.
Init == Create({"array"})

\* A fetcher that resolves with a plain object keyed by query.
InitRecord == Create({"record"})

\* ------------------------------------------------------------------- actions
\* Mutant: every call restarts the batch's clock.
fetchStart_Always(st, t) == t

\* if (!start) start = Date.now(): null and 0 are falsy.
fetchStart(st, t) == IF st = Null \/ st = 0 THEN t ELSE st

\* fetch(query)
fetch(query) ==
    /\ Len(calls) < MaxCalls
    /\ LET s == fetchStart(start, now)
           l == now
           scheduled == scheduler(s, l)
           handle == Len(calls) + 1
       IN  /\ start' = s
           /\ latest' = l
           /\ batch' = SetAdd(batch, query)
           /\ timers' = { t \in timers : t.id # timer }
                            \cup { [id |-> handle, due |-> now + setTimeoutDelay(scheduled)] }
           /\ timer' = handle
           /\ calls' = Append(calls,
                  [query |-> query, deferred |-> currentRequest, seq |-> seq, at |-> now,
                   window |-> Len(requests) + 1,
                   promise |-> then(deferreds[currentRequest], query)])
    /\ events' = Notify("queue", seq, Len(requests) + 1)
    /\ UNCHANGED <<config, now, seq, currentRequest, deferreds, requests>>

\* Mutant: the fired queries stay in the pending set.
TimerFire_KeepsBatch(t) ==
    /\ t \in timers
    /\ t.due <= now
    /\ requests' = Append(requests,
           [seq |-> seq, queries |-> Spread(batch), deferred |-> currentRequest,
            at |-> now, state |-> "pending", data |-> NoData, error |-> ""])
    /\ deferreds' = NewRequest(deferreds)
    /\ currentRequest' = Len(deferreds')
    /\ timer' = NoTimer
    /\ start' = Null
    /\ latest' = Null
    /\ seq' = seq + 1
    /\ timers' = timers \ {t}
    /\ events' = Notify("fetch", seq, Len(requests) + 1)
    /\ UNCHANGED <<config, now, calls, batch>>

\* The callback given to setTimeout, run for an armed timer that is due.  The
\* fetcher is called with [...batch] before the closure is reset; it is taken
\* to return its promise without calling fetch itself.
TimerFire(t) ==
    /\ t \in timers
    /\ t.due <= now
    /\ requests' = Append(requests,
           [seq |-> seq, queries |-> Spread(batch), deferred |-> currentRequest,
            at |-> now, state |-> "pending", data |-> NoData, error |-> ""])
    /\ batch' = <<>>
    /\ deferreds' = NewRequest(deferreds)
    /\ currentRequest' = Len(deferreds')
    /\ timer' = NoTimer
    /\ start' = Null
    /\ latest' = Null
    /\ seq' = seq + 1
    /\ timers' = timers \ {t}
    /\ events' = Notify("fetch", seq, Len(requests) + 1)
    /\ UNCHANGED <<config, now, calls>>

\* The same callback with a fetcher that calls fetch(query) of this batcher
\* while it is being invoked, before it returns its promise.  The fetcher has
\* been handed [...batch] and runs before the closure is reset: the inner
\* fetch adds to the Set that is about to be replaced, arms a timer whose
\* handle is then overwritten with undefined, and chains its promise from the
\* deferred of the batch being fired.
TimerFireReentrant(t, query) ==
    /\ t \in timers
    /\ t.due <= now
    /\ Len(calls) < MaxCalls
    /\ LET s == fetchStart(start, now)
           scheduled == scheduler(s, now)
           handle == Len(calls) + 1
       IN  /\ requests' = Append(requests,
                  [seq |-> seq, queries |-> Spread(batch), deferred |-> currentRequest,
                   at |-> now, state |-> "pending", data |-> NoData, error |-> ""])
           /\ calls' = Append(calls,
                  [query |-> query, deferred |-> currentRequest, seq |-> seq, at |-> now,
                   window |-> Len(requests) + 2,
                   promise |-> then(deferreds[currentRequest], query)])
           /\ timers' = { u \in timers \ {t} : u.id # timer }
                            \cup { [id |-> handle, due |-> now + setTimeoutDelay(scheduled)] }
    /\ batch' = <<>>
    /\ deferreds' = NewRequest(deferreds)
    /\ currentRequest' = Len(deferreds')
    /\ timer' = NoTimer
    /\ start' = Null
    /\ latest' = Null
    /\ seq' = seq + 1
    /\ events' = Notify("queue", seq, Len(requests) + 1)
                      \cup Notify("fetch", seq, Len(requests) + 1)
    /\ UNCHANGED <<config, now>>

\* Mutant: the data resolves the deferred of the batch accumulating now, not
\* the one the timer callback kept in _currentRequest.
FetcherResolve_Current(r, data) ==
    /\ r \in 1..Len(requests)
    /\ requests[r].state = "pending"
    /\ requests' = [requests EXCEPT ![r].state = "fulfilled", ![r].data = data]
    /\ LET d == currentRequest
           ds == [deferreds EXCEPT ![d] = resolve(@, data)]
       IN  /\ deferreds' = ds
           /\ calls' = Settle(calls, ds, d)
    /\ events' = Notify("data", currentSeq(r), r)
    /\ UNCHANGED <<config, now, seq, batch, currentRequest, timer, start, latest, timers>>

\* req.then((data) => _currentRequest.resolve(data))
FetcherResolve(r, data) ==
    /\ r \in 1..Len(requests)
    /\ requests[r].state = "pending"
    /\ requests' = [requests EXCEPT ![r].state = "fulfilled", ![r].data = data]
    /\ LET d == requests[r].deferred
           ds == [deferreds EXCEPT ![d] = resolve(@, data)]
       IN  /\ deferreds' = ds
           /\ calls' = Settle(calls, ds, d)
    /\ events' = Notify("data", currentSeq(r), r)
    /\ UNCHANGED <<config, now, seq, batch, currentRequest, timer, start, latest, timers>>

\* Mutant: the rejection of the fetcher is not passed on.
FetcherReject_Swallowed(r, error) ==
    /\ r \in 1..Len(requests)
    /\ requests[r].state = "pending"
    /\ requests' = [requests EXCEPT ![r].state = "rejected", ![r].error = error]
    /\ events' = Notify("error", currentSeq(r), r)
    /\ UNCHANGED <<config, now, seq, batch, currentRequest, timer, start, latest,
                   timers, deferreds, calls>>

\* req.catch((error) => _currentRequest.reject(error))
FetcherReject(r, error) ==
    /\ r \in 1..Len(requests)
    /\ requests[r].state = "pending"
    /\ requests' = [requests EXCEPT ![r].state = "rejected", ![r].error = error]
    /\ LET d == requests[r].deferred
           ds == [deferreds EXCEPT ![d] = reject(@, error)]
       IN  /\ deferreds' = ds
           /\ calls' = Settle(calls, ds, d)
    /\ events' = Notify("error", currentSeq(r), r)
    /\ UNCHANGED <<config, now, seq, batch, currentRequest, timer, start, latest, timers>>

\* One millisecond passes; no armed timer is overdue.
Tick ==
    /\ now < MaxTime
    /\ \A t \in timers : now < t.due
    /\ now' = now + 1
    /\ UNCHANGED <<config, seq, batch, currentRequest, timer, start, latest,
                   timers, deferreds, requests, calls, events>>

Next ==
    \/ \E query \in Queries : fetch(query)
    \/ \E t \in timers : TimerFire(t)
    \/ \E r \in 1..Len(requests), data \in Results : FetcherResolve(r, data)
    \/ \E r \in 1..Len(requests), error \in Errors : FetcherReject(r, error)
    \/ Tick

Spec == Init /\ [][Next]_vars

SpecRecord == InitRecord /\ [][Next]_vars

\* Any fetcher, also one that calls fetch while it is being invoked.
NextReentrant ==
    \/ Next
    \/ \E t \in timers, query \in InnerQueries : TimerFireReentrant(t, query)

SpecReentrant == Init /\ [][NextReentrant]_vars

\* ------------------------------------------------------- calls without end
\* Time seen from a horizon that moves with the clock: once now has reached
\* MaxTime, a millisecond passing moves every recorded time one step back.
\* The code reads times only as latest - start and as the delay left on a
\* timer; a time older than the horizon stays at the oldest one kept, which
\* leaves latest - start at MaxTime - 1 or more, past the window either way.
Back(t) == IF t = Null THEN Null ELSE IF t > 1 THEN t - 1 ELSE 1

\* windowScheduler(WindowMs), key equality, a fetcher of the declared type.
InitLive ==
    /\ Create({"array"})
    /\ config.scheduler.kind = "window"
    /\ config.equality = "key"

\* fetch(query) by a caller whose promise is not followed: one of the calls
\* that keep arriving while a batch is pending.
fetchMore(query) ==
    /\ batch # <<>>
    /\ LET s == fetchStart(start, now)
           l == now
           scheduled == scheduler(s, l)
           handle == IF timer = NoTimer THEN Len(calls) + 1 ELSE timer
       IN  /\ start' = s
           /\ latest' = l
           /\ batch' = SetAdd(batch, query)
           /\ timers' = { t \in timers : t.id # timer }
                            \cup { [id |-> handle, due |-> now + setTimeoutDelay(scheduled)] }
           /\ timer' = handle
    /\ events' = Notify("queue", seq, Len(requests) + 1)
    /\ UNCHANGED <<config, now, seq, currentRequest, deferreds, requests, calls>>

\* One millisecond passes; no armed timer is overdue.
TickLive ==
    /\ \A t \in timers : now < t.due
    /\ IF now < MaxTime
       THEN /\ now' = now + 1
            /\ UNCHANGED <<start, latest, timers, requests, calls>>
       ELSE /\ now' = now
            /\ start' = Back(start)
            /\ latest' = Back(latest)
            /\ timers' = { [t EXCEPT !.due = Back(@)] : t \in timers }
            /\ requests' = [r \in 1..Len(requests) |-> [requests[r] EXCEPT !.at = Back(@)]]
            /\ calls' = [i \in 1..Len(calls) |-> [calls[i] EXCEPT !.at = Back(@)]]
    /\ UNCHANGED <<config, seq, batch, currentRequest, timer, deferreds, events>>

NextLive ==
    \/ \E query \in InnerQueries : fetch(query)
    \/ \E query \in InnerQueries : fetchMore(query)
    \/ \E t \in timers : TimerFire(t)
    \/ \E r \in 1..Len(requests), data \in Results : FetcherResolve(r, data)
    \/ \E r \in 1..Len(requests), error \in Errors : FetcherReject(r, error)
    \/ TickLive

\* Time passes, a timer that stays armed and due runs its callback, and the
\* promise of every fetcher invocation settles.
SpecLive ==
    /\ InitLive
    /\ [][NextLive]_vars
    /\ WF_vars(TickLive)
    /\ WF_vars(\E t \in timers : TimerFire(t))
    /\ \A r \in 1..MaxCalls :
           WF_vars(\/ \E data \in Results : FetcherResolve(r, data)
                   \/ \E error \in Errors : FetcherReject(r, error))

\* The calls stop: the same without the callers that keep arriving.
NextQuiet ==
    \/ \E query \in InnerQueries : fetch(query)
    \/ \E t \in timers : TimerFire(t)
    \/ \E r \in 1..Len(requests), data \in Results : FetcherResolve(r, data)
    \/ \E r \in 1..Len(requests), error \in Errors : FetcherReject(r, error)
    \/ TickLive

SpecQuiet ==
    /\ InitLive
    /\ [][NextQuiet]_vars
    /\ WF_vars(TickLive)
    /\ WF_vars(\E t \in timers : TimerFire(t))
    /\ \A r \in 1..MaxCalls :
           WF_vars(\/ \E data \in Results : FetcherResolve(r, data)
                   \/ \E error \in Errors : FetcherReject(r, error))

\* ======================================================================
\* Properties.  A call belongs to the batch window it was issued in:
\* window r is ended by the r-th fetcher invocation, requests[r].
\* ======================================================================
Callers(r) == { i \in 1..Len(calls) : calls[i].window = r }

Fired == 1..Len(requests)

Count(s, x) == Cardinality({ k \in 1..Len(s) : s[k] = x })

\* C1: the fetcher invocation that ends a batch window receives every query
\* requested in that window exactly once and no other query, however many
\* calls asked for it, and callers of one window that asked for the same
\* query hold promises with the same outcome.
C1_Deduplicated ==
    \A r \in Fired :
        /\ \A i \in Callers(r) : Count(requests[r].queries, calls[i].query) = 1
        /\ \A k \in 1..Len(requests[r].queries) :
               \E i \in Callers(r) : calls[i].query = requests[r].queries[k]
        /\ \A i, j \in Callers(r) :
               calls[i].query = calls[j].query => calls[i].promise = calls[j].promise

\* Two calls of one window asked for the same query, the fetcher got it once
\* and both callers hold the same item.
C1_Witness ==
    \E r \in Fired : \E i, j \in Callers(r) :
        /\ i # j
        /\ calls[i].query = calls[j].query
        /\ Len(requests[r].queries) < Cardinality(Callers(r))
        /\ calls[i].promise.state = "fulfilled"
        /\ calls[i].promise.value.kind = "item"
        /\ calls[j].promise = calls[i].promise

\* The times of the calls of window r, and the window still accumulating.
Times(r) == { calls[i].at : i \in Callers(r) }
First(r) == CHOOSE t \in Times(r) : \A u \in Times(r) : t <= u
Last(r) == CHOOSE t \in Times(r) : \A u \in Times(r) : u <= t
Current == Len(requests) + 1

\* The fetcher invocations that settle the promise of call i.
InvocationsFor(i) == { r \in Fired : requests[r].deferred = calls[i].deferred }

\* C2: with windowScheduler(W), a batch whose calls all happen before t0 + W,
\* t0 being the time of its first call, is executed at t0 + W by one fetcher
\* invocation that carries the queries of all those calls; until then one
\* timer is armed for t0 + W; a call made after the batch has fired is not
\* settled by that invocation.
C2_WindowFiresAtDeadline ==
    config.scheduler.kind = "window" =>
        /\ \A r \in Fired :
               (\A t \in Times(r) : t < First(r) + config.scheduler.ms) =>
                   /\ requests[r].at = First(r) + config.scheduler.ms
                   /\ \A i \in Callers(r) :
                          /\ Count(requests[r].queries, calls[i].query) = 1
                          /\ InvocationsFor(i) = {r}
        /\ (Callers(Current) # {}
              /\ \A t \in Times(Current) : t < First(Current) + config.scheduler.ms) =>
               /\ now <= First(Current) + config.scheduler.ms
               /\ { t.due : t \in timers } = { First(Current) + config.scheduler.ms }
        /\ \A r \in Fired : \A i \in 1..Len(calls) :
               calls[i].window > r => r \notin InvocationsFor(i)

\* A window batch of calls made at different times fired at t0 + W, and a
\* later call was left out of it.
C2_Witness ==
    /\ config.scheduler.kind = "window"
    /\ \E r \in Fired :
           /\ Cardinality(Times(r)) > 1
           /\ \A t \in Times(r) : t < First(r) + config.scheduler.ms
           /\ requests[r].at = First(r) + config.scheduler.ms
           /\ Len(requests[r].queries) > 1
           /\ \E i \in 1..Len(calls) : calls[i].window > r /\ calls[i].at = requests[r].at

\* C3: with bufferScheduler(B), every call of a batch re-arms the timer for
\* B after that call: the batch is executed at (time of its last call) + B by
\* one fetcher invocation that carries the queries of all its calls.
C3_BufferFiresAfterLastCall ==
    config.scheduler.kind = "buffer" =>
        /\ \A r \in Fired :
               /\ requests[r].at = Last(r) + config.scheduler.ms
               /\ \A i \in Callers(r) :
                      /\ Count(requests[r].queries, calls[i].query) = 1
                      /\ InvocationsFor(i) = {r}
        /\ Callers(Current) # {} =>
               /\ now <= Last(Current) + config.scheduler.ms
               /\ { t.due : t \in timers } = { Last(Current) + config.scheduler.ms }

\* A buffer batch whose later call deferred the execution past t0 + B.
C3_Witness ==
    /\ config.scheduler.kind = "buffer"
    /\ \E r \in Fired :
           /\ Last(r) > First(r)
           /\ requests[r].at = Last(r) + config.scheduler.ms
           /\ requests[r].at > First(r) + config.scheduler.ms
           /\ Len(requests[r].queries) > 1

\* C4: when the fetcher rejects for a fired batch, every caller of that batch
\* is rejected with that same error; a batch whose fetcher fulfils has all
\* its callers fulfilled, whatever happened to the batches before it.
C4_FailureFanOut ==
    \A r \in Fired : \A i \in Callers(r) :
        /\ requests[r].state = "rejected" =>
               calls[i].promise =
                   [state |-> "rejected", value |-> Undefined, error |-> requests[r].error]
        /\ requests[r].state = "fulfilled" => calls[i].promise.state = "fulfilled"

\* A rejected batch of two callers, followed by a batch that resolved its
\* caller with an item.
C4_Witness ==
    \E r, n \in Fired :
        /\ r < n
        /\ requests[r].state = "rejected"
        /\ Cardinality(Callers(r)) > 1
        /\ \A i \in Callers(r) : calls[i].promise.error = requests[r].error
        /\ requests[n].state = "fulfilled"
        /\ \E i \in Callers(n) :
               calls[i].promise.state = "fulfilled" /\ calls[i].promise.value.kind = "item"

\* C5: a call made after batch N has fired is chained from a deferred that no
\* other batch's fetcher invocation settles, and its promise follows the
\* outcome of its own batch alone: it is pending as long as its own batch has
\* not fired or its fetch is in flight, whichever other batches have settled,
\* and it is settled with the error or from the data of its own batch.
C5_IndependentBatches ==
    \A i \in 1..Len(calls) :
        LET r == calls[i].window
            p == calls[i].promise
        IN  /\ \A n \in Fired : n # r => requests[n].deferred # calls[i].deferred
            /\ (r \notin Fired \/ requests[r].state = "pending") => p.state = "pending"
            /\ p.state = "rejected" =>
                   requests[r].state = "rejected" /\ p.error = requests[r].error
            /\ p.state = "fulfilled" =>
                   /\ requests[r].state = "fulfilled"
                   /\ \A k \in 1..Len(p.value.items) :
                          Count(requests[r].data.items, p.value.items[k]) > 0

\* Batch N+1 began while the fetch of batch N was in flight and completed
\* first: its caller is settled, the callers of batch N are pending.
C5_Witness ==
    \E r \in Fired :
        /\ r + 1 \in Fired
        /\ requests[r].state = "pending"
        /\ requests[r + 1].state # "pending"
        /\ \A i \in Callers(r) : calls[i].promise.state = "pending"
        /\ \E i \in Callers(r + 1) : calls[i].promise.state = "fulfilled"

\* The named field of the item equals the query.
FieldEquals(item, query) == query.ref = 0 /\ item.id = query.val

\* The settled request of the batch of call i resolved with an array.
ResolvedArray(i) ==
    /\ calls[i].window \in Fired
    /\ requests[calls[i].window].state = "fulfilled"
    /\ requests[calls[i].window].data.kind = "array"

ItemsFor(i) == requests[calls[i].window].data.items

\* C6: with the field-key strategy, a caller whose batch was resolved with a
\* sequence of items is resolved with the first item of that sequence whose
\* named field equals the caller's query.
C6_FieldKeyFirstMatch ==
    config.equality = "key" =>
        \A i \in 1..Len(calls) :
            ResolvedArray(i) =>
                \A k \in 1..Len(ItemsFor(i)) :
                    (/\ FieldEquals(ItemsFor(i)[k], calls[i].query)
                     /\ \A m \in 1..(k - 1) : ~FieldEquals(ItemsFor(i)[m], calls[i].query)) =>
                        calls[i].promise =
                            [state |-> "fulfilled", value |-> ItemVal(ItemsFor(i)[k]),
                             error |-> ""]

\* Two callers of one batch hold different items, one of them the first of
\* two items whose field equals its query.
C6_Witness ==
    /\ config.equality = "key"
    /\ \E i, j \in 1..Len(calls) :
           /\ calls[i].window = calls[j].window
           /\ ResolvedArray(i)
           /\ calls[i].promise.value = ItemVal(ItemA)
           /\ calls[j].promise.value = ItemVal(ItemC)
    /\ \E i \in 1..Len(calls) :
           /\ ResolvedArray(i)
           /\ ItemsFor(i) = <<ItemA, ItemB>>
           /\ calls[i].promise.value = ItemVal(ItemA)

\* The items of a sequence that a predicate on authorId selects for a query.
RECURSIVE Filter(_, _)
Filter(items, query) ==
    IF items = <<>> THEN <<>>
    ELSE IF query.ref # 0 /\ Head(items).authorId = query.val
         THEN <<Head(items)>> \o Filter(Tail(items), query)
         ELSE Filter(Tail(items), query)

\* C7: with a function strategy, a caller is resolved with all the items of
\* the batch result that belong to its query, which may be several items.
C7_FunctionReturnsSubset ==
    config.equality = "function" =>
        \A i \in 1..Len(calls) :
            ResolvedArray(i) =>
                /\ calls[i].promise.state = "fulfilled"
                /\ calls[i].promise.value.items = Filter(ItemsFor(i), calls[i].query)

\* C8: with a fetcher that resolves with a mapping from query to item, a
\* caller is resolved with the item stored under its own query.
C8_RecordLookup ==
    \A i \in 1..Len(calls) :
        LET r == calls[i].window
        IN  (r \in Fired /\ requests[r].state = "fulfilled"
                /\ requests[r].data.kind = "record") =>
                \A k \in 1..Len(requests[r].data.keys) :
                    (calls[i].query.ref = 0 /\ requests[r].data.keys[k] = calls[i].query.val) =>
                        calls[i].promise =
                            [state |-> "fulfilled",
                             value |-> ItemVal(requests[r].data.items[k]), error |-> ""]

\* An item matches a query under the configured strategy.
Matches(item, query) ==
    \/ config.equality = "key" /\ query.ref = 0 /\ item.id = query.val
    \/ config.equality = "function" /\ query.ref # 0 /\ item.authorId = query.val

\* C9: when nothing in a resolved batch result matches a caller's query, the
\* caller is resolved with undefined, neither rejected nor left pending; the
\* callers of the batch whose query is matched are resolved with a matching
\* item.
C9_UnmatchedResolvesUndefined ==
    \A i \in 1..Len(calls) :
        ResolvedArray(i) =>
            IF \E k \in 1..Len(ItemsFor(i)) : Matches(ItemsFor(i)[k], calls[i].query)
            THEN /\ calls[i].promise.state = "fulfilled"
                 /\ calls[i].promise.value.kind = "item"
                 /\ Matches(calls[i].promise.value.items[1], calls[i].query)
            ELSE calls[i].promise =
                     [state |-> "fulfilled", value |-> Undefined, error |-> ""]

\* One batch, resolved with items, one caller without a match resolved with
\* undefined beside a caller resolved with its item.
C9_Witness ==
    \E i, j \in 1..Len(calls) :
        /\ calls[i].window = calls[j].window
        /\ ResolvedArray(i)
        /\ ItemsFor(i) # <<>>
        /\ calls[i].promise = [state |-> "fulfilled", value |-> Undefined, error |-> ""]
        /\ calls[j].promise.state = "fulfilled"
        /\ calls[j].promise.value.kind = "item"

\* The queries of the calls of window r in call order, each at its first
\* position only.
RECURSIVE FirstOccurrences(_, _, _)
FirstOccurrences(r, i, acc) ==
    IF i > Len(calls) THEN acc
    ELSE IF calls[i].window = r /\ Count(acc, calls[i].query) = 0
         THEN FirstOccurrences(r, i + 1, Append(acc, calls[i].query))
         ELSE FirstOccurrences(r, i + 1, acc)

\* C10: the fetcher receives the distinct queries of a batch in the order in
\* which each was first added; a repeated query keeps its first position.
C10_InsertionOrder ==
    \A r \in Fired : requests[r].queries = FirstOccurrences(r, 1, <<>>)

\* A batch of two queries in which the first one was requested again after
\* the second.
C10_Witness ==
    \E r \in Fired : \E i, j, k \in Callers(r) :
        /\ i < j /\ j < k
        /\ calls[i].query = calls[k].query
        /\ calls[i].query # calls[j].query
        /\ requests[r].queries = <<calls[i].query, calls[j].query>>

\* ======================================================================
\* Properties of every state, checked with any fetcher (SpecReentrant).
\* ======================================================================

\* The calls whose query went into the Set that is pending now.
Pending == { i \in 1..Len(calls) : calls[i].deferred = currentRequest }

\* C12: at most one timer of the batcher is armed: a fetch call cancels the
\* timer armed before it, so that no earlier timer can still fire.
C12_AtMostOneTimer == Cardinality(timers) <= 1

\* C13: start and latest are null exactly when the pending set is empty; while
\* a batch is pending start is the time of its first call and latest the time
\* of its last call.
C13_StartLatestNullIffEmpty ==
    /\ (start = Null) <=> (batch = <<>>)
    /\ (latest = Null) <=> (batch = <<>>)
    /\ batch # <<>> =>
           /\ Pending # {}
           /\ \A i \in Pending : start <= calls[i].at /\ calls[i].at <= latest
           /\ \E i \in Pending : calls[i].at = start
           /\ \E i \in Pending : calls[i].at = latest

\* After a batch has fired, a new batch has had calls at two different times.
C13_Witness ==
    /\ Len(requests) > 0
    /\ start # Null
    /\ start < latest
    /\ Len(batch) > 1

\* C14: the sequence number counts the batches fired, one step per timer
\* fire whatever becomes of the fetch; the n-th batch fired has number n - 1;
\* every notification about a batch carries that batch's number, also when it
\* is made after later batches have fired.
C14_SequenceNumbers ==
    /\ seq = Len(requests)
    /\ \A r \in Fired : requests[r].seq = r - 1
    /\ \A e \in events :
           IF e.window \in Fired THEN e.seq = requests[e.window].seq ELSE e.seq = seq

\* The fetch of a batch failed after a later batch had fired, and its error
\* notification carries the number of its own batch.
C14_Witness ==
    \E e \in events :
        /\ e.type = "error"
        /\ e.fired > e.window
        /\ e.seq = e.window - 1
        /\ e.seq < seq - 1

\* C15: every batch has a deferred of its own: the deferreds of the batches
\* fired differ from each other and from the one of the batch accumulating
\* now, which is pending; the deferred of a fired batch is pending while that
\* batch's fetch is in flight and holds exactly the outcome of that fetch
\* afterwards, data or error, never another batch's.
C15_OwnDeferredSettledOnce ==
    /\ \A r, n \in Fired : r # n => requests[r].deferred # requests[n].deferred
    /\ \A r \in Fired : requests[r].deferred # currentRequest
    /\ \A d \in 1..Len(deferreds) :
           d = currentRequest \/ \E r \in Fired : requests[r].deferred = d
    /\ deferreds[currentRequest].state = "pending"
    /\ \A r \in Fired :
           /\ deferreds[requests[r].deferred].state = requests[r].state
           /\ deferreds[requests[r].deferred].data = requests[r].data
           /\ deferreds[requests[r].deferred].error = requests[r].error

\* One batch resolved, another rejected, a third one accumulating.
C15_Witness ==
    /\ batch # <<>>
    /\ \E r, n \in Fired :
           /\ deferreds[requests[r].deferred].state = "fulfilled"
           /\ deferreds[requests[r].deferred].data.items # <<>>
           /\ deferreds[requests[n].deferred].state = "rejected"

\* C16: the timer callback swaps in a fresh batch before it invokes the
\* fetcher, so every call, also one made while the fetcher is being invoked,
\* is independent of the batches fired before it: it is chained from the
\* deferred of none of them, and the invocation that ends its own window
\* receives its query and settles its promise.
C16_FreshBatchBeforeFetcher ==
    \A i \in 1..Len(calls) :
        /\ \A n \in Fired :
               n < calls[i].window => requests[n].deferred # calls[i].deferred
        /\ calls[i].window \in Fired =>
               /\ Count(requests[calls[i].window].queries, calls[i].query) = 1
               /\ requests[calls[i].window].deferred = calls[i].deferred

\* The callers chained from the deferred snapshotted by invocation r.
ChainedTo(r) == { i \in 1..Len(calls) : calls[i].deferred = requests[r].deferred }

\* A step in which the timer callback runs.
IsFire == Len(requests') = Len(requests) + 1

\* A step in which the fetch of invocation r completes.
IsOutcome(r) == requests[r].state = "pending" /\ requests'[r].state # "pending"

\* C17: a timer fire hands the pending set and its deferred to the fetcher
\* invocation and leaves the batcher idle: an empty pending set, a new pending
\* deferred, no timer handle, no start and no latest.  The outcome of the
\* invocation, data or error, changes none of this: it settles the callers
\* chained from the snapshotted deferred, with the error when it is one, and
\* nobody else.  No query of the fired batch reaches a later invocation
\* unless it is asked for again.
C17_FireResetsToIdle ==
    [][ /\ IsFire =>
            /\ batch' = <<>>
            /\ start' = Null /\ latest' = Null /\ timer' = NoTimer
            /\ currentRequest' # currentRequest
            /\ deferreds'[currentRequest'] = deferred
            /\ \A i \in 1..Len(calls') : calls'[i].deferred # currentRequest'
            /\ requests'[Len(requests')].queries = batch
            /\ requests'[Len(requests')].deferred = currentRequest
        /\ \A r \in Fired : IsOutcome(r) =>
            /\ UNCHANGED <<batch, currentRequest, timer, start, latest, seq, timers>>
            /\ \A i \in 1..Len(calls) :
                   IF i \in ChainedTo(r)
                   THEN /\ calls'[i].promise.state # "pending"
                        /\ requests'[r].state = "rejected" =>
                               calls'[i].promise = [state |-> "rejected", value |-> Undefined,
                                                    error |-> requests'[r].error]
                        /\ requests'[r].state = "fulfilled" =>
                               calls'[i].promise = then(resolve(deferred, requests'[r].data),
                                                        calls[i].query)
                   ELSE calls'[i] = calls[i]
        /\ \A r \in 1..Len(requests') : \A k \in 1..Len(requests'[r].queries) :
               \E i \in 1..Len(calls') :
                   /\ calls'[i].deferred = requests'[r].deferred
                   /\ calls'[i].query = requests'[r].queries[k]
      ]_vars

\* The fetch of one batch failed and its callers were rejected; the next
\* batch was fired all the same, with a query of its own only, and the
\* batcher is idle again.
C17_Witness ==
    /\ batch = <<>>
    /\ start = Null
    /\ timers = {}
    /\ \E r \in Fired :
           /\ r + 1 \in Fired
           /\ requests[r].state = "rejected"
           /\ requests[r].at < requests[r + 1].at
           /\ Len(requests[r].queries) > 1
           /\ \A i \in ChainedTo(r) : calls[i].promise.error = requests[r].error
           /\ Len(requests[r + 1].queries) = 1
           /\ Count(requests[r].queries, requests[r + 1].queries[1]) = 0

\* C18: the deferred a call's promise is chained from is the deferred of the
\* one fetcher invocation that receives the call's query: an invocation that
\* settles the deferred has the query among its queries, there is at most one
\* such invocation, and until there is one the query is in the pending set.
C18_ChainedToOwnInvocation ==
    \A i \in 1..Len(calls) :
        /\ \A r \in InvocationsFor(i) : Count(requests[r].queries, calls[i].query) = 1
        /\ Cardinality(InvocationsFor(i)) <= 1
        /\ InvocationsFor(i) = {} =>
               calls[i].deferred = currentRequest /\ Count(batch, calls[i].query) = 1
        /\ calls[i].promise.state # "pending" =>
               \E r \in InvocationsFor(i) : requests[r].state # "pending"

\* C19: between operations the pending set is non-empty exactly when a timer
\* is armed, and no fetcher invocation was made with an empty sequence.
C19_PendingIffTimerArmed ==
    /\ (batch # <<>>) <=> (timers # {})
    /\ \A r \in Fired : requests[r].queries # <<>>

\* C20: with windowScheduler, when time passes, due timers fire and every
\* fetcher invocation settles, the promise of every call is settled in the
\* end, also when further calls keep arriving.
C20_EventuallySettled ==
    \A i \in 1..MaxCalls :
        [](Len(calls) >= i => <>(Len(calls) >= i /\ calls[i].promise.state # "pending"))

====
